---------------------------- MODULE Spec2Model ----------------------------
(***************************************************************************)
(* A model of demangler.py, a recursive-descent demangler for Itanium C++  *)
(* ABI names.  The input text is a sequence of one-character strings; the  *)
(* text of a node (a Python str) is a TLA+ string built from such a        *)
(* sequence by Text.  The Python call stack is the variable stack: every   *)
(* production is a frame, and every action is the piece of one production  *)
(* that runs between two calls or returns.                                 *)
(***************************************************************************)
EXTENDS Integers, Sequences, FiniteSets, TLC

VARIABLES raw, status, stack, cursors, ret, result, exc, out

vars == <<raw, status, stack, cursors, ret, result, exc, out>>

---------------------------------------------------------------------------
(* Bounds of the model. *)

\* The longest generated tail appended to a family's prefix.
MaxTail == 4

\* The same for the family of the builtin-type codes, whose alphabet is large.
MaxCode == 2

---------------------------------------------------------------------------
(* Python values. *)

\* The value None.
None == [kind |-> "None"]

Node(kind, value) == [kind |-> kind, value |-> value]

QualNode(kind, value, qual) == [kind |-> kind, value |-> value, qual |-> qual]

CastNode(kind, value, ty) == [kind |-> kind, value |-> value, ty |-> ty]

RECURSIVE Text(_)
\* The str whose characters are the sequence s.
Text(s) == IF s = <<>> THEN "" ELSE s[1] \o Text(Tail(s))

Min(a, b) == IF a < b THEN a ELSE b

\* The Python slice s[a:b] for 0 <= a <= b: it stops at the end of s.
Slice(s, a, b) == SubSeq(s, a + 1, Min(b, Len(s)))

Digits == {"0", "1", "2", "3", "4", "5", "6", "7", "8", "9"}

B36Lower == <<"0", "1", "2", "3", "4", "5", "6", "7", "8", "9",
              "a", "b", "c", "d", "e", "f", "g", "h", "i", "j", "k", "l", "m",
              "n", "o", "p", "q", "r", "s", "t", "u", "v", "w", "x", "y", "z">>

B36Upper == <<"0", "1", "2", "3", "4", "5", "6", "7", "8", "9",
              "A", "B", "C", "D", "E", "F", "G", "H", "I", "J", "K", "L", "M",
              "N", "O", "P", "Q", "R", "S", "T", "U", "V", "W", "X", "Y", "Z">>

IsB36(c) == \E i \in 1..Len(B36Lower) : B36Lower[i] = c \/ B36Upper[i] = c

B36Val(c) == (CHOOSE i \in 1..Len(B36Lower) : B36Lower[i] = c \/ B36Upper[i] = c) - 1

RECURSIVE DigitsValue(_, _, _)
\* The value of the digit sequence s in the given base, after the value acc.
DigitsValue(s, base, acc) ==
    IF s = <<>> THEN acc
    ELSE DigitsValue(Tail(s), base, acc * base + B36Val(s[1]))

\* int(s) for a match of \d+
int10(s) == DigitsValue(s, 10, 0)

RECURSIVE StripLeft(_)
StripLeft(s) == IF s # <<>> /\ s[1] = " " THEN StripLeft(Tail(s)) ELSE s

RECURSIVE StripRight(_)
StripRight(s) ==
    IF s # <<>> /\ s[Len(s)] = " " THEN StripRight(SubSeq(s, 1, Len(s) - 1)) ELSE s

\* int(s, 10) in the place of int(s, 36): the digits are read in base 10.
int10_for_int36(s) ==
    LET t == StripRight(StripLeft(s))
        signed == t # <<>> /\ t[1] \in {"+", "-"}
        d == IF signed THEN Tail(t) ELSE t
    IN  IF d = <<>> \/ \E i \in 1..Len(d) : ~IsB36(d[i])
        THEN [ok |-> FALSE, val |-> 0]
        ELSE [ok |-> TRUE,
              val |-> IF signed /\ t[1] = "-"
                      THEN 0 - DigitsValue(d, 10, 0)
                      ELSE DigitsValue(d, 10, 0)]

\* int(s, 36) for a str s without '_': surrounding blanks are dropped, one sign
\* is read, and what is left must be one or more base-36 digits.  ok = FALSE
\* stands for ValueError.
int36(s) ==
    LET t == StripRight(StripLeft(s))
        signed == t # <<>> /\ t[1] \in {"+", "-"}
        d == IF signed THEN Tail(t) ELSE t
    IN  IF d = <<>> \/ \E i \in 1..Len(d) : ~IsB36(d[i])
        THEN [ok |-> FALSE, val |-> 0]
        ELSE [ok |-> TRUE,
              val |-> IF signed /\ t[1] = "-"
                      THEN 0 - DigitsValue(d, 36, 0)
                      ELSE DigitsValue(d, 36, 0)]

---------------------------------------------------------------------------
(* The lookup tables. *)

_ctor_dtor_map ==
    ("C1" :> "complete") @@ ("C2" :> "base") @@ ("C3" :> "allocating") @@
    ("D0" :> "deleting") @@ ("D1" :> "complete") @@ ("D2" :> "base")

_std_names ==
    ("St" :> <<Node("name", "std")>>) @@
    ("Sa" :> <<Node("name", "std"), Node("name", "allocator")>>) @@
    ("Sb" :> <<Node("name", "std"), Node("name", "basic_string")>>) @@
    ("Ss" :> <<Node("name", "std"), Node("name", "string")>>) @@
    ("Si" :> <<Node("name", "std"), Node("name", "istream")>>) @@
    ("So" :> <<Node("name", "std"), Node("name", "ostream")>>) @@
    ("Sd" :> <<Node("name", "std"), Node("name", "iostream")>>)

_operators ==
    ("nw" :> "new") @@ ("na" :> "new[]") @@ ("dl" :> "delete") @@
    ("da" :> "delete[]") @@ ("ps" :> "+") @@ ("ng" :> "-") @@ ("ad" :> "&") @@
    ("de" :> "*") @@ ("co" :> "~") @@ ("pl" :> "+") @@ ("mi" :> "-") @@
    ("ml" :> "*") @@ ("dv" :> "/") @@ ("rm" :> "%") @@ ("an" :> "&") @@
    ("or" :> "|") @@ ("eo" :> "^") @@ ("aS" :> "=") @@ ("pL" :> "+=") @@
    ("mI" :> "-=") @@ ("mL" :> "*=") @@ ("dV" :> "/=") @@ ("rM" :> "%=") @@
    ("aN" :> "&=") @@ ("oR" :> "|=") @@ ("eO" :> "^=") @@ ("ls" :> "<<") @@
    ("rs" :> ">>") @@ ("lS" :> "<<=") @@ ("rS" :> ">>=") @@ ("eq" :> "==") @@
    ("ne" :> "!=") @@ ("lt" :> "<") @@ ("gt" :> ">") @@ ("le" :> "<=") @@
    ("ge" :> ">=") @@ ("nt" :> "!") @@ ("aa" :> "&&") @@ ("oo" :> "||") @@
    ("pp" :> "++") @@ ("mm" :> "--") @@ ("cm" :> ",") @@ ("pm" :> "->*") @@
    ("pt" :> "->") @@ ("cl" :> "()") @@ ("ix" :> "[]") @@ ("qu" :> "?")

_builtin_types ==
    ("v" :> "void") @@ ("w" :> "wchar_t") @@ ("b" :> "bool") @@ ("c" :> "char") @@
    ("a" :> "signed char") @@ ("h" :> "unsigned char") @@ ("s" :> "short") @@
    ("t" :> "unsigned short") @@ ("i" :> "int") @@ ("j" :> "unsigned int") @@
    ("l" :> "long") @@ ("m" :> "unsigned long") @@ ("x" :> "long long") @@
    ("y" :> "unsigned long long") @@ ("n" :> "__int128") @@
    ("o" :> "unsigned __int128") @@ ("f" :> "float") @@ ("d" :> "double") @@
    ("e" :> "__float80") @@ ("g" :> "__float128") @@ ("z" :> "...") @@
    ("Di" :> "char32_t") @@ ("Ds" :> "char16_t") @@ ("Da" :> "auto")

---------------------------------------------------------------------------
(* _Cursor.  A cursor is [raw, pos, isstr]: isstr = FALSE is a cursor     *)
(* built on None instead of a str (raw is then the empty sequence).  Each  *)
(* operation gives its return value and the position it leaves.            *)

_Cursor(text, isstr) == [raw |-> text, pos |-> 0, isstr |-> isstr]

at_end(c) == c.pos = Len(c.raw)

accept(c, delim) ==
    IF Slice(c.raw, c.pos, c.pos + Len(delim)) = delim
    THEN [res |-> TRUE, pos |-> c.pos + Len(delim)]
    ELSE [res |-> FALSE, pos |-> c.pos]

\* advance without its check of the end of the text.
advance_unchecked(c, amount) ==
    [found |-> TRUE,
     text |-> Slice(c.raw, c.pos, c.pos + amount),
     pos |-> c.pos + amount]

\* found = FALSE: the result is None.
advance(c, amount) ==
    IF c.pos + amount > Len(c.raw)
    THEN [found |-> FALSE, text |-> <<>>, pos |-> c.pos]
    ELSE [found |-> TRUE,
          text |-> Slice(c.raw, c.pos, c.pos + amount),
          pos |-> c.pos + amount]

\* str.find(delim, start): the least index >= start where delim occurs, or -1.
find(s, delim, start) ==
    LET hits == {i \in start..(Len(s) - Len(delim)) : Slice(s, i, i + Len(delim)) = delim}
    IN  IF hits = {} THEN -1 ELSE CHOOSE i \in hits : \A j \in hits : i <= j

advance_until(c, delim) ==
    LET new_pos == find(c.raw, delim, c.pos)
    IN  IF new_pos = -1
        THEN [found |-> FALSE, text |-> <<>>, pos |-> c.pos]
        ELSE [found |-> TRUE,
              text |-> Slice(c.raw, c.pos, new_pos),
              pos |-> new_pos + Len(delim)]

---------------------------------------------------------------------------
(* The patterns.  A match is [group, text, end, ...]: the alternative     *)
(* that matched (Python tries them in the order written), the text it      *)
(* matched and the position after it; group = "none" is no match.          *)

\* The character at 0-based index i of s, "" past the end.
CharAt(s, i) == IF i < Len(s) THEN s[i + 1] ELSE ""

RECURSIVE RunLen(_, _, _)
\* How many characters of s from index i on belong to class.
RunLen(s, i, class) ==
    IF i < Len(s) /\ s[i + 1] \in class THEN 1 + RunLen(s, i + 1, class) ELSE 0

NoMatch == [group |-> "none"]

\* The alternation of operator_name in _NAME_RE.
OperatorCodes ==
    {"nw", "na", "dl", "da", "ps", "ng", "ad", "de", "co", "pl", "mi", "ml",
     "dv", "rm", "an", "or", "eo", "aS", "pL", "mI", "mL", "dV", "rM", "aN",
     "oR", "eO", "ls", "rs", "lS", "rS", "eq", "ne", "lt", "gt", "le", "ge",
     "nt", "aa", "oo", "pp", "mm", "cm", "pm", "pt", "cl", "ix", "qu"}

_NAME_RE(s, p) ==
    LET c0 == CharAt(s, p)
        c1 == CharAt(s, p + 1)
        two == c0 \o c1
        n == RunLen(s, p, Digits)
        ncv == RunLen(s, p + 1, {"r", "V", "K"})
        nref == IF CharAt(s, p + 1 + ncv) \in {"R", "O"} THEN 1 ELSE 0
    IN  IF n > 0
        THEN [group |-> "source_name", text |-> Slice(s, p, p + n), end |-> p + n]
        ELSE IF c0 = "C" /\ c1 \in {"1", "2", "3"}
        THEN [group |-> "ctor_name", text |-> two, end |-> p + 2]
        ELSE IF c0 = "D" /\ c1 \in {"0", "1", "2"}
        THEN [group |-> "dtor_name", text |-> two, end |-> p + 2]
        ELSE IF c0 = "S" /\ c1 \in {"a", "b", "s", "i", "o", "d"}
        THEN [group |-> "std_name", text |-> two, end |-> p + 2]
        ELSE IF c1 # "" /\ two \in OperatorCodes
        THEN [group |-> "operator_name", text |-> two, end |-> p + 2]
        ELSE IF c0 = "S" /\ c1 = "t"
        THEN [group |-> "std_prefix", text |-> two, end |-> p + 2]
        ELSE IF c0 = "N"
        THEN [group |-> "nested_name", end |-> p + 1 + ncv + nref,
              cv_qual |-> Slice(s, p + 1, p + 1 + ncv),
              ref_qual |-> Slice(s, p + 1 + ncv, p + 1 + ncv + nref)]
        ELSE IF c0 = "I"
        THEN [group |-> "template_args", end |-> p + 1]
        ELSE NoMatch

\* The alternation of builtin_type in _TYPE_RE.
BuiltinCodes ==
    {"v", "w", "b", "c", "a", "h", "s", "t", "i", "j", "l", "m", "x", "y", "n",
     "o", "f", "d", "e", "g", "z",
     "Dd", "De", "Df", "Dh", "DF", "Di", "Ds", "Da", "Dc", "Dn"}

_TYPE_RE(s, p) ==
    LET c0 == CharAt(s, p)
        c1 == CharAt(s, p + 1)
        two == c0 \o c1
        ncv == RunLen(s, p, {"r", "V", "K"})
    IN  IF c0 # "" /\ c0 \in BuiltinCodes
        THEN [group |-> "builtin_type", text |-> c0, end |-> p + 1]
        ELSE IF c1 # "" /\ two \in BuiltinCodes
        THEN [group |-> "builtin_type", text |-> two, end |-> p + 2]
        ELSE IF ncv > 0
        THEN [group |-> "qualified_type", text |-> Slice(s, p, p + ncv), end |-> p + ncv]
        ELSE IF c0 = "T"
        THEN [group |-> "template_param", end |-> p + 1]
        ELSE IF c0 \in {"P", "R", "O"}
        THEN [group |-> "indirect_type", text |-> <<c0>>, end |-> p + 1]
        ELSE IF c0 = "L"
        THEN [group |-> "expr_primary", end |-> p]
        ELSE NoMatch

_EXPR_PRIMARY_RE(s, p) ==
    IF CharAt(s, p) # "L" THEN NoMatch
    ELSE IF Slice(s, p + 1, p + 3) = <<"_", "Z">>
    THEN [group |-> "mangled_name", end |-> p + 1]
    ELSE [group |-> "literal", end |-> p + 1]

_SPECIAL_RE(s, p) ==
    IF CharAt(s, p) = "T" /\ CharAt(s, p + 1) \in {"V", "T", "I", "S"}
    THEN [group |-> "special", kind |-> CharAt(s, p + 1), end |-> p + 2]
    ELSE NoMatch

_MANGLED_NAME_RE(s, p) ==
    IF Slice(s, p, p + 2) = <<"_", "Z">>
    THEN [group |-> "mangled_name", end |-> p + 2]
    ELSE NoMatch

---------------------------------------------------------------------------
(* The helpers of the productions. *)

IsNone(v) == v.kind = "None"

\* _handle_cv that looks at the first letter of the run alone.
_handle_cv_first(qualifiers, node) ==
    LET has(q) == qualifiers # <<>> /\ qualifiers[1] = q
        qualifier_set == (IF has("r") THEN {"restrict"} ELSE {}) \cup
                         (IF has("V") THEN {"volatile"} ELSE {}) \cup
                         (IF has("K") THEN {"const"} ELSE {})
    IN  IF qualifier_set # {} THEN QualNode("cv_qual", node, qualifier_set) ELSE node

_handle_cv(qualifiers, node) ==
    LET has(q) == \E i \in 1..Len(qualifiers) : qualifiers[i] = q
        qualifier_set == (IF has("r") THEN {"restrict"} ELSE {}) \cup
                         (IF has("V") THEN {"volatile"} ELSE {}) \cup
                         (IF has("K") THEN {"const"} ELSE {})
    IN  IF qualifier_set # {} THEN QualNode("cv_qual", node, qualifier_set) ELSE node

_handle_indirect(qualifier, node) ==
    IF qualifier = <<"P">> THEN Node("pointer", node)
    ELSE IF qualifier = <<"R">> THEN Node("lvalue", node)
    ELSE IF qualifier = <<"O">> THEN Node("rvalue", node)
    ELSE node

\* c is the cursor after the length prefix; the result is [node, pos].
_parse_source_name(c, length) ==
    LET name_len == int10(length)
        name == advance(c, name_len)
    IN  IF ~name.found
        THEN [node |-> None, pos |-> name.pos]
        ELSE [node |-> Node("name", Text(name.text)), pos |-> name.pos]

---------------------------------------------------------------------------
(* Frames and the outcome of a step.  A frame is one running call: fn is   *)
(* the function, pc the place in it where it goes on, pos0 the position of *)
(* its cursor when it was called, itpos the position when the iteration    *)
(* of its loop began (both are history, no code reads them), and the rest  *)
(* its local variables.  The outcome of a step says what the step does to  *)
(* the call stack and where it leaves the cursor.                          *)

Frame(fn, pos) ==
    [fn |-> fn, pc |-> "entry", pos0 |-> pos, itpos |-> pos, kind |-> "", item |-> "",
     nodes |-> <<>>, node |-> None, cv |-> <<>>, ref |-> <<>>]

UntilEndFrame(kind, item, pos) ==
    [Frame("_parse_until_end", pos) EXCEPT !.kind = kind, !.item = item]

\* The function returns v.
Return(v, pos) == [op |-> "return", value |-> v, pos |-> pos]

\* The function goes on as frame f after calling the function of frame callee.
Call(f, callee, pos) == [op |-> "call", frame |-> f, callee |-> callee, pos |-> pos]

\* The function goes on as frame f.
Goto(f, pos) == [op |-> "goto", frame |-> f, pos |-> pos]

\* The function raises e, which nothing in the module catches.
Raise(e, pos) == [op |-> "raise", exc |-> e, pos |-> pos]

\* As Call, on a new cursor made for the callee.
CallOn(f, callee, pos, cursor) ==
    [op |-> "callon", frame |-> f, callee |-> callee, pos |-> pos, cursor |-> cursor]

\* As Return, dropping the cursor made for the callee.
ReturnDrop(v) == [op |-> "returndrop", value |-> v]

---------------------------------------------------------------------------
(* The productions, one definition per stretch of code between two calls:  *)
(* f is the frame, c its cursor, r the value the call it made returned.    *)

\* _parse_mangled_name up to the call of _parse_special.
MangledName_entry(f, c) ==
    IF ~c.isstr THEN Raise("TypeError", c.pos)
    ELSE LET match == _MANGLED_NAME_RE(c.raw, c.pos)
         IN  IF match.group = "none" THEN Return(None, c.pos)
             ELSE Call([f EXCEPT !.pc = "special"],
                       Frame("_parse_special", match.end), match.end)

\* special = _parse_special(cursor) has returned r.
MangledName_special(f, c, r) ==
    IF ~IsNone(r) THEN Return(r, c.pos)
    ELSE Call([f EXCEPT !.pc = "name"], Frame("_parse_name", c.pos), c.pos)

\* name = _parse_name(cursor) has returned r.
MangledName_name(f, c, r) ==
    IF IsNone(r) THEN Return(None, c.pos)
    ELSE Goto([f EXCEPT !.node = r, !.pc = "args"], c.pos)

\* The head of the loop over the argument types, and what follows the loop.
MangledName_args(f, c) ==
    IF ~at_end(c)
    THEN Call([f EXCEPT !.pc = "arg", !.itpos = c.pos],
              Frame("_parse_type", c.pos), c.pos)
    ELSE IF f.nodes # <<>>
    THEN Return(Node("function", <<f.node, f.nodes>>), c.pos)
    ELSE Return(f.node, c.pos)

\* arg_type = _parse_type(cursor) has returned r.
MangledName_arg(f, c, r) ==
    IF IsNone(r) THEN Return(None, c.pos)
    ELSE Goto([f EXCEPT !.nodes = Append(@, r), !.pc = "args"], c.pos)

\* _parse_special up to the call of _parse_type.
Special_entry(f, c) ==
    LET match == _SPECIAL_RE(c.raw, c.pos)
    IN  IF match.group = "none" THEN Return(None, c.pos)
        ELSE Call([f EXCEPT !.kind = match.kind, !.pc = "type"],
                  Frame("_parse_type", match.end), match.end)

\* name = _parse_type(cursor) has returned r.
Special_type(f, c, r) ==
    IF IsNone(r) THEN Return(None, c.pos)
    ELSE IF f.kind = "V" THEN Return(Node("vtable", r), c.pos)
    ELSE IF f.kind = "T" THEN Return(Node("vtt", r), c.pos)
    ELSE IF f.kind = "I" THEN Return(Node("typeinfo", r), c.pos)
    ELSE IF f.kind = "S" THEN Return(Node("typeinfo_name", r), c.pos)
    ELSE Return(None, c.pos)

\* The end of _parse_name, from "if node is None" on, with the cursor at pos.
Name_finish(f, c, node, pos) ==
    IF IsNone(node) THEN Return(None, pos)
    ELSE LET a == accept([c EXCEPT !.pos = pos], <<"I">>)
         IN  IF a.res
             THEN Call([f EXCEPT !.node = node, !.pc = "templ_args"],
                       UntilEndFrame("tpl_args", "_parse_type", a.pos), a.pos)
             ELSE Return(node, a.pos)

\* _parse_name up to its first call, or to its end when it makes none.
Name_entry(f, c) ==
    LET match == _NAME_RE(c.raw, c.pos)
    IN  IF match.group = "none" THEN Return(None, c.pos)
        ELSE IF match.group = "source_name"
        THEN LET sn == _parse_source_name([c EXCEPT !.pos = match.end], match.text)
             IN  IF IsNone(sn.node) THEN Return(None, sn.pos)
                 ELSE Name_finish(f, c, sn.node, sn.pos)
        ELSE IF match.group = "ctor_name"
        THEN Name_finish(f, c, Node("ctor", _ctor_dtor_map[match.text]), match.end)
        ELSE IF match.group = "dtor_name"
        THEN Name_finish(f, c, Node("dtor", _ctor_dtor_map[match.text]), match.end)
        ELSE IF match.group = "std_name"
        THEN Name_finish(f, c, Node("qual_name", _std_names[match.text]), match.end)
        ELSE IF match.group = "operator_name"
        THEN Name_finish(f, c, Node("operator", _operators[match.text]), match.end)
        ELSE IF match.group = "std_prefix"
        THEN Call([f EXCEPT !.pc = "std_prefix"],
                  Frame("_parse_name", match.end), match.end)
        ELSE IF match.group = "nested_name"
        THEN Call([f EXCEPT !.pc = "nested_name",
                            !.cv = match.cv_qual, !.ref = match.ref_qual],
                  UntilEndFrame("qual_name", "_parse_name", match.end), match.end)
        ELSE Call([f EXCEPT !.pc = "template_args"],
                  UntilEndFrame("tpl_args", "_parse_type", match.end), match.end)

\* std_prefix: name = _parse_name(cursor) has returned r.
Name_std_prefix(f, c, r) ==
    IF IsNone(r) THEN Return(None, c.pos)
    ELSE IF r.kind = "qual_name"
    THEN Name_finish(f, c, Node("qual_name", <<Node("name", "std")>> \o r.value), c.pos)
    ELSE Name_finish(f, c, Node("qual_name", <<Node("name", "std"), r>>), c.pos)

\* nested_name: node = _parse_until_end(cursor, 'qual_name', _parse_name) has
\* returned r.
Name_nested_name(f, c, r) ==
    Name_finish(f, c, _handle_indirect(f.ref, _handle_cv(f.cv, r)), c.pos)

\* template_args: node = _parse_until_end(cursor, 'tpl_args', _parse_type) has
\* returned r.
Name_template_args(f, c, r) == Name_finish(f, c, r, c.pos)

\* templ_args = _parse_until_end(cursor, 'tpl_args', _parse_type) has returned r.
Name_templ_args(f, c, r) ==
    IF IsNone(r) THEN Return(None, c.pos)
    ELSE Return(Node("qual_name", <<f.node, r>>), c.pos)

\* The head of the loop of _parse_until_end, and what follows the loop.
UntilEnd_loop(f, c) ==
    LET a == accept(c, <<"E">>)
    IN  IF a.res THEN Return(Node(f.kind, f.nodes), a.pos)
        ELSE Call([f EXCEPT !.pc = "item", !.itpos = a.pos],
                  Frame(f.item, a.pos), a.pos)

\* node = fn(cursor) has returned r.
UntilEnd_item(f, c, r) ==
    IF IsNone(r) \/ at_end(c) THEN Return(None, c.pos)
    ELSE Goto([f EXCEPT !.nodes = Append(@, r), !.pc = "entry"], c.pos)

\* _parse_type up to its first call, or to its end when it makes none.
Type_entry(f, c) ==
    LET match == _TYPE_RE(c.raw, c.pos)
    IN  IF match.group = "none"
        THEN Call([f EXCEPT !.pc = "delegate"], Frame("_parse_name", c.pos), c.pos)
        ELSE IF match.group = "builtin_type"
        THEN IF match.text \in DOMAIN _builtin_types
             THEN Return(Node("name", _builtin_types[match.text]), match.end)
             ELSE Raise("KeyError", match.end)
        ELSE IF match.group = "qualified_type"
        THEN Call([f EXCEPT !.pc = "qualified_type", !.cv = match.text],
                  Frame("_parse_type", match.end), match.end)
        ELSE IF match.group = "template_param"
        THEN LET seq_id == advance_until([c EXCEPT !.pos = match.end], <<"_">>)
             IN  IF seq_id.found /\ seq_id.text = <<>>
                 THEN Return(Node("tpl_param", 0), seq_id.pos)
                 ELSE IF ~seq_id.found THEN Raise("TypeError", seq_id.pos)
                 ELSE IF ~int36(seq_id.text).ok THEN Raise("ValueError", seq_id.pos)
                 ELSE Return(Node("tpl_param", 1 + int36(seq_id.text).val), seq_id.pos)
        ELSE IF match.group = "indirect_type"
        THEN Call([f EXCEPT !.pc = "indirect_type", !.ref = match.text],
                  Frame("_parse_type", match.end), match.end)
        ELSE Call([f EXCEPT !.pc = "delegate"],
                  Frame("_parse_expr_primary", match.end), match.end)

\* return _parse_name(cursor) and return _parse_expr_primary(cursor): the call
\* has returned r.
Type_delegate(f, c, r) == Return(r, c.pos)

\* qualified_type: ty = _parse_type(cursor) has returned r.
Type_qualified_type(f, c, r) ==
    IF IsNone(r) THEN Return(None, c.pos)
    ELSE Return(_handle_cv(f.cv, r), c.pos)

\* indirect_type: ty = _parse_type(cursor) has returned r.
Type_indirect_type(f, c, r) ==
    IF IsNone(r) THEN Return(None, c.pos)
    ELSE Return(_handle_indirect(f.ref, r), c.pos)

\* _parse_expr_primary up to its call.
ExprPrimary_entry(f, c) ==
    LET match == _EXPR_PRIMARY_RE(c.raw, c.pos)
    IN  IF match.group = "none" THEN Return(None, c.pos)
        ELSE IF match.group = "mangled_name"
        THEN LET mangled_name == advance_until([c EXCEPT !.pos = match.end], <<"E">>)
             IN  CallOn([f EXCEPT !.pc = "mangled_name"],
                        Frame("_parse_mangled_name", 0), mangled_name.pos,
                        _Cursor(mangled_name.text, mangled_name.found))
        ELSE Call([f EXCEPT !.pc = "literal"],
                  Frame("_parse_type", match.end), match.end)

\* return _parse_mangled_name(_Cursor(mangled_name)): the call has returned r.
ExprPrimary_mangled_name(f, r) == ReturnDrop(r)

\* literal: ty = _parse_type(cursor) has returned r.
ExprPrimary_literal(f, c, r) ==
    IF IsNone(r) THEN Return(None, c.pos)
    ELSE LET value == advance_until(c, <<"E">>)
         IN  IF ~value.found THEN Return(None, value.pos)
             ELSE Return(CastNode("literal", Text(value.text), r), value.pos)

---------------------------------------------------------------------------
(* The printer: Node.__str__, QualNode.__str__ and CastNode.__str__.       *)

Quals == {"const", "volatile", "restrict"}

QualSets == (SUBSET Quals) \ {{}}

\* The lists that hold each element of S once.
Perms(S) ==
    {p \in [1..Cardinality(S) -> S] : \A i, j \in 1..Cardinality(S) : p[i] = p[j] => i = j}

\* list(qual): a Python set of str is listed in the order of its hash table,
\* which changes with the hash seed of the process.  An order is one list per
\* qualifier set.
ListOrders ==
    {[S \in QualSets |->
        IF S = Quals THEN p3
        ELSE IF S = {"const", "volatile"} THEN pcv
        ELSE IF S = {"const", "restrict"} THEN pcr
        ELSE IF S = {"volatile", "restrict"} THEN pvr
        ELSE CHOOSE p \in Perms(S) : TRUE] :
     p3 \in Perms(Quals), pcv \in Perms({"const", "volatile"}),
     pcr \in Perms({"const", "restrict"}), pvr \in Perms({"volatile", "restrict"})}

RECURSIVE join(_, _)
\* sep.join(texts)
join(sep, texts) ==
    IF texts = <<>> THEN ""
    ELSE IF Len(texts) = 1 THEN texts[1]
    ELSE texts[1] \o sep \o join(sep, Tail(texts))

RECURSIVE str(_, _)

RECURSIVE qual_name_loop(_, _, _, _)
\* The loop of the qual_name branch of Node.__str__ from element i of nodes on,
\* with result the text so far.
qual_name_loop(nodes, i, res, ord) ==
    IF i > Len(nodes) THEN res
    ELSE LET node == nodes[i]
             sep == IF res # "" /\ node.kind # "tpl_args" THEN "::" ELSE ""
         IN  qual_name_loop(nodes, i + 1, res \o sep \o str(node, ord), ord)

\* str(node), with each qualifier set listed in the order ord gives it.
str(node, ord) ==
    LET strs(nodes) == [i \in 1..Len(nodes) |-> str(nodes[i], ord)]
    IN  CASE node.kind = "None" -> "None"
          [] node.kind = "name" -> node.value
          [] node.kind = "qual_name" -> qual_name_loop(node.value, 1, "", ord)
          [] node.kind = "tpl_args" -> "<" \o join(", ", strs(node.value)) \o ">"
          [] node.kind = "ctor" ->
                (CASE node.value = "complete" -> "{ctor}"
                   [] node.value = "base" -> "{base ctor}"
                   [] node.value = "allocating" -> "{allocating ctor}")
          [] node.kind = "dtor" ->
                (CASE node.value = "deleting" -> "{deleting dtor}"
                   [] node.value = "complete" -> "{dtor}"
                   [] node.value = "base" -> "{base dtor}")
          [] node.kind = "operator" ->
                IF node.value \in {"new", "new[]", "delete", "delete[]"}
                THEN "operator " \o node.value
                ELSE "operator" \o node.value
          [] node.kind = "pointer" -> str(node.value, ord) \o "*"
          [] node.kind = "lvalue" -> str(node.value, ord) \o "&"
          [] node.kind = "rvalue" -> str(node.value, ord) \o "&&"
          [] node.kind = "function" ->
                LET name == node.value[1]
                    args == node.value[2]
                IN  IF Len(args) = 1 /\ args[1].kind = "name" /\ args[1].value = "void"
                    THEN str(name, ord) \o "()"
                    ELSE str(name, ord) \o "(" \o join(", ", strs(args)) \o ")"
          [] node.kind = "tpl_param" -> "{T" \o ToString(node.value) \o "}"
          [] node.kind = "vtable" -> "vtable for " \o str(node.value, ord)
          [] node.kind = "vtt" -> "vtt for " \o str(node.value, ord)
          [] node.kind = "typeinfo" -> "typeinfo for " \o str(node.value, ord)
          [] node.kind = "typeinfo_name" -> "typeinfo name for " \o str(node.value, ord)
          [] node.kind = "cv_qual" ->
                join(" ", <<str(node.value, ord)>> \o
                          [i \in 1..Cardinality(node.qual) |-> ord[node.qual][i]])
          [] node.kind = "literal" -> "(" \o str(node.ty, ord) \o ")" \o node.value

---------------------------------------------------------------------------
(* The inputs. *)

RECURSIVE Tails(_, _)
\* The sequences over alphabet of length at most n.
Tails(alphabet, n) ==
    IF n = 0 THEN {<<>>}
    ELSE LET shorter == Tails(alphabet, n - 1)
         IN  shorter \cup {Append(t, a) : t \in {u \in shorter : Len(u) = n - 1},
                                          a \in alphabet}

\* The inputs of the module's own tests (TestDemangler), one or two of each test.
TestInputs ==
    {<<"_", "Z", "3", "f", "o", "o">>,
     <<"_", "Z", "3", "x">>,
     <<"_", "Z", "N", "3", "f", "o", "o", "C", "1", "E">>,
     <<"_", "Z", "N", "3", "f", "o", "o", "D", "0", "E">>,
     <<"_", "Z", "n", "w">>,
     <<"_", "Z", "S", "t">>,
     <<"_", "Z", "S", "t", "3", "f", "o", "o">>,
     <<"_", "Z", "S", "s">>,
     <<"_", "Z", "N", "3", "f", "o", "o", "I", "c", "E", "5", "b", "a", "r", "g", "e", "E">>,
     <<"_", "Z", "N", "K", "R", "3", "f", "o", "o", "E">>,
     <<"_", "Z", "3", "f", "o", "o", "I", "c", "E">>,
     <<"_", "Z", "1", "f", "v">>,
     <<"_", "Z", "1", "f", "D", "i">>,
     <<"_", "Z", "1", "f", "V", "V", "V", "i">>,
     <<"_", "Z", "1", "f", "K", "R", "i">>,
     <<"_", "Z", "1", "f", "R", "K", "i">>,
     <<"_", "Z", "1", "f", "I", "L", "i", "1", "E", "E">>,
     <<"_", "Z", "1", "f", "I", "L", "_", "Z", "1", "g", "E", "E">>,
     <<"_", "Z", "T", "V", "1", "f">>,
     <<"_", "Z", "T", "S", "1", "f">>}

\* The inputs that begin with prefix and go on with at most n characters of
\* alphabet.
Family(prefix, alphabet, n) == {prefix \o t : t \in Tails(alphabet, n)}

\* Texts without the prefix of a mangled name, or with a part of it.
MalformedInputs == Family(<<>>, {"_", "Z", "1", "x"}, MaxTail)

\* Names: nested names, the std prefix, template arguments.
NameInputs == Family(<<"_", "Z">>, {"N", "E", "S", "t", "I", "C", "1", "x"}, MaxTail)

\* The inside of a nested name, with qualifiers and source names of length 0 to 2.
NestedInputs ==
    Family(<<"_", "Z", "N">>, {"K", "R", "E", "C", "0", "1", "2", "x"}, MaxTail)

\* What follows the tag of a special name.
SpecialInputs == Family(<<"_", "Z", "T", "V">>, {"N", "E", "K", "1", "3", "x"}, MaxTail)

\* Argument types with qualifiers and indirections.
QualifiedInputs == Family(<<"_", "Z", "1", "f">>, {"r", "V", "K", "P", "R", "i"}, MaxTail)

\* Template parameters.
TemplateParamInputs ==
    Family(<<"_", "Z", "1", "f", "T">>, {"0", "1", "Z", "-", "_", "i"}, MaxTail)

\* Builtin-type codes.
BuiltinInputs ==
    Family(<<"_", "Z", "1", "f">>,
           {"D", "d", "e", "f", "h", "F", "c", "n", "i", "s", "a"}, MaxCode)

\* Literals as template arguments.
LiteralInputs ==
    Family(<<"_", "Z", "1", "f", "I", "L">>, {"i", "K", "1", "x", "E", "_"}, MaxTail)

\* Mangled names as template arguments.
NestedMangledInputs ==
    Family(<<"_", "Z", "1", "f", "I", "L", "_", "Z">>,
           {"1", "g", "i", "T", "L", "E"}, MaxTail)

Inputs ==
    TestInputs \cup MalformedInputs \cup NameInputs \cup NestedInputs \cup
    SpecialInputs \cup QualifiedInputs \cup TemplateParamInputs \cup
    BuiltinInputs \cup LiteralInputs \cup NestedMangledInputs

---------------------------------------------------------------------------
(* The state machine. *)

Pop(s) == SubSeq(s, 1, Len(s) - 1)

\* The outcome of the step of frame f, the innermost call, with cursor c, when
\* the call it made (if it made one) has returned r.
Outcome(f, c, r) ==
    CASE f.fn = "_parse_mangled_name" ->
            (CASE f.pc = "entry" -> MangledName_entry(f, c)
               [] f.pc = "special" -> MangledName_special(f, c, r)
               [] f.pc = "name" -> MangledName_name(f, c, r)
               [] f.pc = "args" -> MangledName_args(f, c)
               [] f.pc = "arg" -> MangledName_arg(f, c, r))
      [] f.fn = "_parse_special" ->
            (CASE f.pc = "entry" -> Special_entry(f, c)
               [] f.pc = "type" -> Special_type(f, c, r))
      [] f.fn = "_parse_name" ->
            (CASE f.pc = "entry" -> Name_entry(f, c)
               [] f.pc = "std_prefix" -> Name_std_prefix(f, c, r)
               [] f.pc = "nested_name" -> Name_nested_name(f, c, r)
               [] f.pc = "template_args" -> Name_template_args(f, c, r)
               [] f.pc = "templ_args" -> Name_templ_args(f, c, r))
      [] f.fn = "_parse_until_end" ->
            (CASE f.pc = "entry" -> UntilEnd_loop(f, c)
               [] f.pc = "item" -> UntilEnd_item(f, c, r))
      [] f.fn = "_parse_type" ->
            (CASE f.pc = "entry" -> Type_entry(f, c)
               [] f.pc = "delegate" -> Type_delegate(f, c, r)
               [] f.pc = "qualified_type" -> Type_qualified_type(f, c, r)
               [] f.pc = "indirect_type" -> Type_indirect_type(f, c, r))
      [] f.fn = "_parse_expr_primary" ->
            (CASE f.pc = "entry" -> ExprPrimary_entry(f, c)
               [] f.pc = "mangled_name" -> ExprPrimary_mangled_name(f, r)
               [] f.pc = "literal" -> ExprPrimary_literal(f, c, r))

\* The interpreter's state while parse runs, st, after a step of its innermost
\* call with outcome o.  ret is the value the last step returned, None after any
\* other step.
Step(st, o) ==
    LET n == Len(st.stack)
        k == Len(st.cursors)
        returns == o.op \in {"return", "returndrop"}
        ends == o.op = "return" /\ n = 1
    IN  [stack |-> CASE returns -> Pop(st.stack)
                     [] o.op = "raise" -> <<>>
                     [] o.op = "goto" -> [st.stack EXCEPT ![n] = o.frame]
                     [] o.op \in {"call", "callon"} ->
                           Append([st.stack EXCEPT ![n] = o.frame], o.callee),
         cursors |-> CASE o.op = "returndrop" -> Pop(st.cursors)
                       [] o.op = "callon" ->
                             Append([st.cursors EXCEPT ![k].pos = o.pos], o.cursor)
                       [] OTHER -> [st.cursors EXCEPT ![k].pos = o.pos],
         ret |-> IF returns THEN o.value ELSE None,
         status |-> IF o.op = "raise" THEN "raised"
                    ELSE IF ends THEN "returned"
                    ELSE st.status,
         result |-> IF ends THEN o.value ELSE st.result,
         exc |-> IF o.op = "raise" THEN o.exc ELSE st.exc]

\* The state st after the step of its innermost call.
After(st) ==
    Step(st, Outcome(st.stack[Len(st.stack)], st.cursors[Len(st.cursors)], st.ret))

\* The state in which parse(text) begins.
Begin(text) ==
    [stack |-> <<Frame("_parse_mangled_name", 0)>>,
     cursors |-> <<_Cursor(text, TRUE)>>,
     ret |-> None, status |-> "running", result |-> None, exc |-> ""]

RECURSIVE Finish(_)
\* The state in which the run that is in state st ends.
Finish(st) == IF st.status # "running" THEN st ELSE Finish(After(st))

\* parse(text), as the state in which it ends: returned with a result, or raised.
parse(text) == Finish(Begin(text))

Here ==
    [stack |-> stack, cursors |-> cursors, ret |-> ret,
     status |-> status, result |-> result, exc |-> exc]

Top == stack[Len(stack)]

Cur == cursors[Len(cursors)]

At(fn, pc) == status = "running" /\ Top.fn = fn /\ Top.pc = pc

\* The interpreter goes to state st.
Commit(st) ==
    /\ stack' = st.stack
    /\ cursors' = st.cursors
    /\ ret' = st.ret
    /\ status' = st.status
    /\ result' = st.result
    /\ exc' = st.exc
    /\ UNCHANGED <<raw, out>>

\* The step of the innermost call, whose outcome is o.
Apply(o) == Commit(Step(Here, o))

Init ==
    /\ raw \in Inputs
    /\ status = "init"
    /\ stack = <<>>
    /\ cursors = <<>>
    /\ ret = None
    /\ result = None
    /\ exc = ""
    /\ out = ""

\* parse(raw), up to the call of _parse_mangled_name.
StepParse ==
    /\ status = "init"
    /\ status' = Begin(raw).status
    /\ cursors' = Begin(raw).cursors
    /\ stack' = Begin(raw).stack
    /\ UNCHANGED <<raw, ret, result, exc, out>>

StepMangledNameEntry ==
    At("_parse_mangled_name", "entry") /\ Apply(MangledName_entry(Top, Cur))

StepMangledNameSpecial ==
    At("_parse_mangled_name", "special") /\ Apply(MangledName_special(Top, Cur, ret))

StepMangledNameName ==
    At("_parse_mangled_name", "name") /\ Apply(MangledName_name(Top, Cur, ret))

StepMangledNameArgs ==
    At("_parse_mangled_name", "args") /\ Apply(MangledName_args(Top, Cur))

StepMangledNameArg ==
    At("_parse_mangled_name", "arg") /\ Apply(MangledName_arg(Top, Cur, ret))

StepSpecialEntry ==
    At("_parse_special", "entry") /\ Apply(Special_entry(Top, Cur))

StepSpecialType ==
    At("_parse_special", "type") /\ Apply(Special_type(Top, Cur, ret))

StepNameEntry ==
    At("_parse_name", "entry") /\ Apply(Name_entry(Top, Cur))

StepNameStdPrefix ==
    At("_parse_name", "std_prefix") /\ Apply(Name_std_prefix(Top, Cur, ret))

StepNameNestedName ==
    At("_parse_name", "nested_name") /\ Apply(Name_nested_name(Top, Cur, ret))

StepNameTemplateArgs ==
    At("_parse_name", "template_args") /\ Apply(Name_template_args(Top, Cur, ret))

StepNameTemplArgs ==
    At("_parse_name", "templ_args") /\ Apply(Name_templ_args(Top, Cur, ret))

StepUntilEndLoop ==
    At("_parse_until_end", "entry") /\ Apply(UntilEnd_loop(Top, Cur))

StepUntilEndItem ==
    At("_parse_until_end", "item") /\ Apply(UntilEnd_item(Top, Cur, ret))

StepTypeEntry ==
    At("_parse_type", "entry") /\ Apply(Type_entry(Top, Cur))

StepTypeDelegate ==
    At("_parse_type", "delegate") /\ Apply(Type_delegate(Top, Cur, ret))

StepTypeQualifiedType ==
    At("_parse_type", "qualified_type") /\ Apply(Type_qualified_type(Top, Cur, ret))

StepTypeIndirectType ==
    At("_parse_type", "indirect_type") /\ Apply(Type_indirect_type(Top, Cur, ret))

StepExprPrimaryEntry ==
    At("_parse_expr_primary", "entry") /\ Apply(ExprPrimary_entry(Top, Cur))

StepExprPrimaryMangledName ==
    At("_parse_expr_primary", "mangled_name") /\ Apply(ExprPrimary_mangled_name(Top, ret))

StepExprPrimaryLiteral ==
    At("_parse_expr_primary", "literal") /\ Apply(ExprPrimary_literal(Top, Cur, ret))

\* str(result), as TestDemangler.assertDemangles calls it: on a result other
\* than None, in a process with some hash seed.
StepStr ==
    /\ status = "returned"
    /\ ~IsNone(result)
    /\ \E ord \in ListOrders : out' = str(result, ord)
    /\ status' = "printed"
    /\ UNCHANGED <<raw, stack, cursors, ret, result, exc>>

Next ==
    \/ StepParse
    \/ StepMangledNameEntry
    \/ StepMangledNameSpecial
    \/ StepMangledNameName
    \/ StepMangledNameArgs
    \/ StepMangledNameArg
    \/ StepSpecialEntry
    \/ StepSpecialType
    \/ StepNameEntry
    \/ StepNameStdPrefix
    \/ StepNameNestedName
    \/ StepNameTemplateArgs
    \/ StepNameTemplArgs
    \/ StepUntilEndLoop
    \/ StepUntilEndItem
    \/ StepTypeEntry
    \/ StepTypeDelegate
    \/ StepTypeQualifiedType
    \/ StepTypeIndirectType
    \/ StepExprPrimaryEntry
    \/ StepExprPrimaryMangledName
    \/ StepExprPrimaryLiteral
    \/ StepStr

Spec == Init /\ [][Next]_vars

(* What the properties speak of. *)

\* The nodes (and None values) that node holds directly.
Children(node) ==
    CASE node.kind \in {"qual_name", "tpl_args"} -> node.value
      [] node.kind = "function" -> <<node.value[1]>> \o node.value[2]
      [] node.kind \in {"pointer", "lvalue", "rvalue", "cv_qual",
                        "vtable", "vtt", "typeinfo", "typeinfo_name"} -> <<node.value>>
      [] node.kind = "literal" -> <<node.ty>>
      [] OTHER -> <<>>

RECURSIVE Subtree(_)

RECURSIVE Subtrees(_)
\* The nodes of the trees of the sequence nodes, one tree after the other.
Subtrees(nodes) ==
    IF nodes = <<>> THEN <<>> ELSE Subtree(nodes[1]) \o Subtrees(Tail(nodes))

\* The nodes (and None values) of the tree of node, node first.
Subtree(node) == <<node>> \o Subtrees(Children(node))

\* P holds of node and of everything under it.
Every(node, P(_)) == \A i \in 1..Len(Subtree(node)) : P(Subtree(node)[i])

\* parse has returned (and its result may have been printed since).
Returned == status \in {"returned", "printed"}

\* parse has returned a node.
ReturnedNode == Returned /\ ~IsNone(result)

\* The run of parse is over.
Ended == status \in {"returned", "printed", "raised"}

\* A call made by the innermost call has just returned.
JustReturned == status = "running" /\ Top.pc \notin {"entry", "args"}

---------------------------------------------------------------------------
(* C1 *)

\* C1: for every input, parse ends by returning a node or None: no input makes it
\* raise an exception.
C1_NeverRaises == status # "raised"

---------------------------------------------------------------------------
(* C2 *)

NoFailureInside(node) == \A i \in 1..Len(Children(node)) : ~IsNone(Children(node)[i])

\* A production has just returned None, and it is not _parse_special, which
\* _parse_mangled_name only tries, nor a production that _parse_special called.
FailureReturned ==
    /\ JustReturned
    /\ IsNone(ret)
    /\ ~(Top.fn = "_parse_mangled_name" /\ Top.pc = "special")
    /\ \A i \in 1..Len(stack) : stack[i].fn # "_parse_special"

\* C2: failure is monotonic: once a production has returned failure, parse
\* returns failure, and no node that parse returns holds the failure value as a
\* child.
C2_FailureMonotonic ==
    /\ FailureReturned =>
          Finish(Here).status = "returned" /\ IsNone(Finish(Here).result)
    /\ ReturnedNode => Every(result, NoFailureInside)

---------------------------------------------------------------------------
(* C5 *)

NonEmptyQualName(node) == node.kind = "qual_name" => node.value # <<>>

\* C5: in every tree that parse returns, every qual_name node has a non-empty
\* sequence of elements.
C5_QualNameNonEmpty == ReturnedNode => Every(result, NonEmptyQualName)

---------------------------------------------------------------------------
(* C3 *)

\* _parse_name is about to match the length prefix of a source name.
SourceNameAt ==
    At("_parse_name", "entry") /\ _NAME_RE(Cur.raw, Cur.pos).group = "source_name"

\* The declared length of that source name, and the position after its prefix.
DeclaredLength == int10(_NAME_RE(Cur.raw, Cur.pos).text)

AfterPrefix == _NAME_RE(Cur.raw, Cur.pos).end

\* Fewer characters than declared remain after the prefix.
ShortSourceName == SourceNameAt /\ Len(Cur.raw) - AfterPrefix < DeclaredLength

\* What the name production does with a source name: it fails with the cursor
\* left after the prefix when the name is short, and otherwise makes a name node
\* of the next DeclaredLength characters and moves the cursor past them (and
\* past an 'I' that follows, which opens its template arguments).
SourceNameProduction ==
    LET o == Name_entry(Top, Cur)
        node == IF o.op = "return" THEN o.value ELSE o.frame.node
        past == AfterPrefix + DeclaredLength
    IN  IF ShortSourceName
        THEN o.op = "return" /\ IsNone(o.value) /\ o.pos = AfterPrefix
        ELSE /\ node = Node("name", Text(Slice(Cur.raw, AfterPrefix, past)))
             /\ Len(node.value) = DeclaredLength
             /\ \/ o.op = "return" /\ o.pos = past
                \/ o.op = "call" /\ CharAt(Cur.raw, past) = "I" /\ o.pos = past + 1

\* C3: a source name with fewer characters left than its declared length makes
\* the name production, and so parse, return failure, with the position left
\* unchanged by advance; any other source name gives a name node of exactly the
\* declared number of characters, the cursor moved past them.
C3_SourceNameLength ==
    SourceNameAt =>
        /\ SourceNameProduction
        /\ ShortSourceName =>
              Finish(Here).status = "returned" /\ IsNone(Finish(Here).result)

\* The part of C3 about the name production alone.
C3_ProductionAlone == SourceNameAt => SourceNameProduction

---------------------------------------------------------------------------
(* C7 *)

\* The text begins with '_Z' and one of the tags of _parse_special.
TagRecognized(text) ==
    /\ _MANGLED_NAME_RE(text, 0).group # "none"
    /\ _SPECIAL_RE(text, _MANGLED_NAME_RE(text, 0).end).group # "none"

\* The cursor of the call of frame i: every call of _parse_mangled_name has a
\* cursor of its own, which the calls under it share.
CursorOf(i) ==
    cursors[Cardinality({j \in 1..i : stack[j].fn = "_parse_mangled_name"})]

SpecialKinds == {"vtable", "vtt", "typeinfo", "typeinfo_name"}

\* C7: once _parse_special has recognized its tag, _parse_mangled_name never
\* goes on to the name production, and parse returns failure when the type after
\* the tag fails: it returns a special node or failure.
C7_DispatchCommitted ==
    /\ \A i \in 1..Len(stack) :
          stack[i].fn = "_parse_mangled_name" /\ TagRecognized(CursorOf(i).raw)
              => stack[i].pc \in {"entry", "special"}
    /\ At("_parse_special", "type") /\ IsNone(ret) /\ Len(stack) = 2
          => Finish(Here).status = "returned" /\ IsNone(Finish(Here).result)
    /\ ReturnedNode /\ TagRecognized(raw) => result.kind \in SpecialKinds

---------------------------------------------------------------------------
(* C8 *)

\* The order const, volatile, restrict, for every qualifier set.
CanonicalOrder ==
    [S \in QualSets |-> SelectSeq(<<"const", "volatile", "restrict">>, LAMBDA q : q \in S)]

HasQualifiers(node) == \E i \in 1..Len(Subtree(node)) : Subtree(node)[i].kind = "cv_qual"

\* C8: a cv_qual node prints as its pointee's text and then its qualifier words
\* in the one order const, volatile, restrict, so that the text printed depends
\* on the tree alone.
C8_CanonicalPrint ==
    status = "printed" /\ HasQualifiers(result) => out = str(result, CanonicalOrder)

---------------------------------------------------------------------------
(* C10 *)

RECURSIVE Separated(_, _, _)
\* The texts of the elements of nodes from element i on, each after the first
\* behind '::' unless it is a tpl_args node.
Separated(nodes, i, ord) ==
    IF i > Len(nodes) THEN ""
    ELSE (IF i > 1 /\ nodes[i].kind # "tpl_args" THEN "::" ELSE "")
         \o str(nodes[i], ord) \o Separated(nodes, i + 1, ord)

\* C10: a qual_name node prints as its elements with '::' between every two
\* consecutive ones, except before a tpl_args element, also when the elements
\* before print as the empty text.
C10_QualNameSeparators ==
    status = "printed" /\ result.kind = "qual_name" =>
        \E ord \in ListOrders : out = Separated(result.value, 1, ord)

---------------------------------------------------------------------------
(* C4 *)

\* _parse_type is about to match the marker T of a template parameter.
TemplateParamAt ==
    At("_parse_type", "entry") /\ _TYPE_RE(Cur.raw, Cur.pos).group = "template_param"

\* The text between the marker and the next '_', when there is a '_'.
SeqId == advance_until([Cur EXCEPT !.pos = _TYPE_RE(Cur.raw, Cur.pos).end], <<"_">>)

\* The text is made of base-36 digits alone (it may be empty).
AllB36(text) == \A i \in 1..Len(text) : IsB36(text[i])

IndexOk(node) == node.kind = "tpl_param" => node.value >= 0

---------------------------------------------------------------------------
(* C6 *)

CvLetters == {"r", "V", "K"}

\* The qualifiers that the letters of run stand for.
QualifiersOf(run) ==
    {IF run[i] = "r" THEN "restrict" ELSE IF run[i] = "V" THEN "volatile" ELSE "const" :
        i \in 1..Len(run)}

\* The letters of run, each once, in the order r, V, K.
OnceEach(run) ==
    SelectSeq(<<"r", "V", "K">>, LAMBDA l : \E i \in 1..Len(run) : run[i] = l)

RECURSIVE Collapse(_, _)
\* The text s from index i on, with every run of qualifier letters replaced by
\* its letters once each in one order.
Collapse(s, i) ==
    IF i >= Len(s) THEN <<>>
    ELSE LET n == RunLen(s, i, CvLetters)
         IN  IF n = 0 THEN <<s[i + 1]>> \o Collapse(s, i + 1)
             ELSE OnceEach(Slice(s, i, i + n)) \o Collapse(s, i + n)

\* The inputs in which every qualifier letter stands in front of a type: those
\* of QualifiedInputs, whose arguments are made of qualifiers, indirections and
\* the builtin type i.
QualifiedInput == raw \in QualifiedInputs

\* raw with the runs of qualifier letters of its argument types collapsed.
Collapsed == Slice(raw, 0, 4) \o Collapse(raw, 4)

\* C6: a run of qualifier letters in front of a type gives one cv_qual node,
\* around the type parsed after the whole run, whose qualifier set is the set of
\* the letters of the run; so parse gives equal trees for two texts that differ
\* only in the order and the repetition of the letters of their runs.
C6_QualifierIdempotence ==
    /\ At("_parse_type", "entry") /\ _TYPE_RE(Cur.raw, Cur.pos).group = "qualified_type" =>
          LET match == _TYPE_RE(Cur.raw, Cur.pos)
              o == Type_entry(Top, Cur)
          IN  /\ CharAt(Cur.raw, match.end) \notin CvLetters
              /\ o.op = "call" /\ o.pos = match.end
              /\ o.frame.cv = Slice(Cur.raw, Cur.pos, match.end)
    /\ At("_parse_type", "qualified_type") /\ ~IsNone(ret) =>
          Type_qualified_type(Top, Cur, ret) =
              Return(QualNode("cv_qual", ret, QualifiersOf(Top.cv)), Cur.pos)
    /\ Returned /\ QualifiedInput =>
          /\ parse(Collapsed).status = "returned"
          /\ parse(Collapsed).result = result

\* parse has returned the tree of a text with a run of repeated or unordered
\* qualifier letters, in which a cv_qual node has two qualifiers or more.
C6_Witness ==
    /\ ReturnedNode /\ QualifiedInput /\ Collapsed # raw
    /\ \E i \in 1..Len(Subtree(result)) :
          /\ Subtree(result)[i].kind = "cv_qual"
          /\ Cardinality(Subtree(result)[i].qual) >= 2

---------------------------------------------------------------------------
(* C9 *)

Productions == {"_parse_name", "_parse_type", "_parse_expr_primary", "_parse_special"}

\* A production that returns a node has moved its cursor forward.
ReturnAdvances ==
    status = "running" /\ status' # "raised" /\ Len(stack') = Len(stack) - 1
        /\ Top.fn \in Productions /\ ~IsNone(ret')
    => cursors'[Len(cursors')].pos > Top.pos0

\* No step moves a cursor backward or changes its text.
CursorMonotone ==
    \A i \in 1..Min(Len(cursors), Len(cursors')) :
        cursors'[i].pos >= cursors[i].pos /\ cursors'[i].raw = cursors[i].raw

\* No cursor is past the end of its text.
CursorInRange ==
    \A i \in 1..Len(cursors) : 0 <= cursors[i].pos /\ cursors[i].pos <= Len(cursors[i].raw)

\* An iteration of the loop of _parse_until_end, or of the loop over the
\* argument types, ends the loop with failure or has moved the cursor forward.
LoopAdvances ==
    At("_parse_until_end", "item") \/ At("_parse_mangled_name", "arg") =>
        \/ Outcome(Top, Cur, ret) = Return(None, Cur.pos)
        \/ Outcome(Top, Cur, ret).op = "goto" /\ Cur.pos > Top.itpos

\* The steps that a call of fn at pc may still take without moving the cursor,
\* the calls it may make there included.
Weight(fn, pc) ==
    CASE fn = "_parse_mangled_name" ->
            (CASE pc = "entry" -> 23 [] pc = "special" -> 19 [] pc = "name" -> 13
               [] pc = "args" -> 12 [] pc = "arg" -> 1)
      [] fn = "_parse_special" -> (CASE pc = "entry" -> 3 [] pc = "type" -> 1)
      [] fn = "_parse_name" ->
            (CASE pc = "entry" -> 5 [] pc = "std_prefix" -> 4 [] pc = "nested_name" -> 3
               [] pc = "template_args" -> 2 [] pc = "templ_args" -> 1)
      [] fn = "_parse_until_end" -> (CASE pc = "entry" -> 20 [] pc = "item" -> 9)
      [] fn = "_parse_type" -> (CASE pc = "entry" -> 10 [] OTHER -> 1)
      [] fn = "_parse_expr_primary" -> (CASE pc = "entry" -> 3 [] OTHER -> 1)

\* The steps that the call of frame i of frames may still take without a move
\* of its cursor, which is the cursor of the innermost call of
\* _parse_mangled_name around it: after a move, a call that is in an iteration
\* of a loop may go back to the head of the loop.
FrameWeight(cs, frames, i) ==
    LET f == frames[i]
        c == cs[Cardinality({j \in 1..i : frames[j].fn = "_parse_mangled_name"})]
    IN  IF f.pc = "item" /\ c.pos > f.itpos THEN Weight(f.fn, "entry") + 1
        ELSE IF f.pc = "arg" /\ c.pos > f.itpos THEN Weight(f.fn, "args") + 1
        ELSE Weight(f.fn, f.pc)

RECURSIVE Pending(_, _, _)
\* The steps that the calls of the first n frames may still take without a move
\* of a cursor.
Pending(cs, frames, n) ==
    IF n = 0 THEN 0 ELSE FrameWeight(cs, frames, n) + Pending(cs, frames, n - 1)

RECURSIVE Remaining(_)
\* The text that the cursors cs have not consumed.
Remaining(cs) ==
    IF cs = <<>> THEN 0
    ELSE Len(cs[1].raw) - cs[1].pos + Remaining(Tail(cs))

\* More than the steps that any stack of this model may take without a move.
MaxPending == 1000

\* The variant of the run: the text left, then the steps left without a move.
Variant(cs, frames) == Remaining(cs) * MaxPending + Pending(cs, frames, Len(frames))

\* Every step of the run takes the variant down, and the variant is a natural
\* number.
VariantDecreases ==
    status = "running" =>
        /\ Pending(cursors, stack, Len(stack)) < MaxPending
        /\ Variant(cursors, stack) \in Nat
        /\ Variant(cursors', stack') \in Nat
        /\ Variant(cursors', stack') < Variant(cursors, stack)

\* C9: parse terminates: a production that succeeds has moved the cursor
\* forward, every iteration of the two loops moves it forward or ends the
\* loop with failure, no step moves a cursor backward or past the end, and so
\* every step of the run takes down a variant that is bounded below.
C9_Terminates ==
    /\ [][ReturnAdvances /\ CursorMonotone /\ VariantDecreases]_vars
    /\ [](CursorInRange /\ LoopAdvances)

\* The loop of _parse_until_end is in its second iteration or a later one, after
\* an item that moved the cursor forward.
C9_Witness ==
    /\ At("_parse_until_end", "item")
    /\ ~IsNone(ret)
    /\ Top.nodes # <<>>
    /\ Cur.pos > Top.itpos

=============================================================================
